---- MODULE Spec2Model ----
(***************************************************************************)
(* Real-time transit pipeline of my-transit-api.                           *)
(*                                                                         *)
(*   services/realtimeProcessor.js  processLocationData and its helpers    *)
(*   server.js                      passenger registry, broadcaster        *)
(*                                  driver socket message handler          *)
(*                                                                         *)
(* Coordinates are integer metres east/north of a local origin (the plane  *)
(* tangent to the sphere): haversineDistance is the Euclidean distance and *)
(* calculateBearing the direction of the displacement.  Distances are kept *)
(* squared and bearings as direction vectors, so that every comparison the *)
(* code makes is exact integer arithmetic.                                 *)
(***************************************************************************)
EXTENDS Integers, Sequences, FiniteSets, TLC

\* ------------------------------------------------------------------ bounds
MaxFrames == 5         \* driver frames received in one behaviour
MaxLongFrames == 6     \* the same, for a driver that stays on one route
MaxInFlight == 2       \* passes suspended in an await at the same time
MaxDbFailures == 1     \* storage queries that fail in one behaviour
MaxQueries == 1        \* station queries made in one behaviour
MaxMatcherFrames == 4  \* driver frames received while the matcher is examined
MaxEstaFrames == 3     \* driver frames received while the esta-info block is examined
MaxTurnFrames == 5     \* driver frames received by a bus that turns
MaxStationFrames == 4  \* driver frames received while stations are queried
MaxServedFrames == 3   \* driver frames received while passengers are served
MaxLookups == 2        \* route lookups pending when the pipeline takes a step
MaxClients == 1        \* passenger sockets opened while a driver is served
MaxUnhandled == 1      \* calls of processLocationData that throw in one behaviour
MaxRejected == 2       \* driver frames the handler does not accept in one behaviour
MaxDriverFrames == 4   \* location frames received from two buses in one behaviour
MaxSockets == 3        \* passenger sockets opened in one behaviour

\* -------------------------------------------------------- program constants
\* Faulty variant: a quorum of two samples.
QuorumOfTwo == 3 - 1

MIN_SIGNALS_FOR_DIRECTION == 3
MIN_MOVEMENT_THRESHOLD_METERS == 1
HISTORY_SIZE == 5
MAX_UPCOMING_STOPS == 5

Missing == -1          \* JavaScript undefined, where a number is expected
None == 0              \* JavaScript null (ids of the schema are positive)

\* -------------------------------------------------------------- the inputs
Buses == {"B1", "B2"}
Routes == {1, 2}
Positions == {<<0, 0>>, <<50, 0>>}
NoCoordinate == <<Missing, Missing>>    \* a frame without lat and lng
Velocities == {10}
Clients == 1..MaxSockets         \* passenger sockets, in the order they connect
Subscribers == 1..MaxClients     \* those that connect while a driver is served
RouteKeys == {"1", "2"}          \* the {routeId} of a passenger URL

\* ----------------------------------------------------------- the database
\* "SubLine": id -> lineid.
SubLineTable ==
    (11 :> 1) @@ (12 :> 1) @@ (21 :> 2) @@ (22 :> 2) @@
    (3 :> 3) @@ (4 :> 3) @@ (5 :> 3) @@ (6 :> 3) @@ (7 :> 3) @@ (8 :> 4)

Stop(i, x) == [id |-> i, pos |-> <<x, 0>>]
StopAt(i, x, y) == [id |-> i, pos |-> <<x, y>>]

\* "SubLineStop" joined with "Stop", ordered by subline id and stop order.
\* 11 runs east, 12 runs west, 21 runs east, 22 has a single stop.  The
\* sublines of route 3 offer the matcher segments at several angles: 3 runs
\* north-east; 4 runs east-north-east, east, then south-east; 5 runs east,
\* then south; 6 has a single stop; 7 runs north-west.  Route 4 has one
\* subline, 8, of eight stops that runs east.
SubLineStops ==
    (11 :> <<Stop(1, 0), Stop(2, 50), Stop(3, 100)>>) @@
    (12 :> <<Stop(3, 100), Stop(2, 50), Stop(1, 0)>>) @@
    (21 :> <<Stop(4, 0), Stop(5, 50)>>) @@
    (22 :> <<Stop(6, 50)>>) @@
    (3 :> <<StopAt(7, 0, 0), StopAt(8, 100, 100)>>) @@
    (4 :> <<StopAt(7, 0, 0), StopAt(10, 200, 100), StopAt(11, 300, 100),
            StopAt(12, 400, 0)>>) @@
    (5 :> <<StopAt(7, 0, 0), StopAt(13, 100, 0), StopAt(14, 100, -100)>>) @@
    (6 :> <<StopAt(15, 50, 50)>>) @@
    (7 :> <<StopAt(13, 100, 0), StopAt(16, 0, 100)>>) @@
    (8 :> <<Stop(21, 0), Stop(22, 50), Stop(23, 100), Stop(24, 150), Stop(25, 200),
            Stop(26, 250), Stop(27, 300), Stop(28, 350)>>)

SublineIds == DOMAIN SubLineTable

\* ---------------------------------------------------------------- geodesy
\* typeof x === 'number' && !isNaN(x), for both coordinates of a point.
IsCoordinate(p) == p[1] # Missing /\ p[2] # Missing

Sgn(n) == IF n > 0 THEN 1 ELSE IF n < 0 THEN -1 ELSE 0

\* haversineDistance, squared.
DistSq(a, b) == (b[1] - a[1]) * (b[1] - a[1]) + (b[2] - a[2]) * (b[2] - a[2])

\* calculateBearing as a direction vector <<east, north>>; atan2(0, 0) = 0
\* makes the bearing between identical points north.
calculateBearing(a, b) ==
    IF a = b THEN <<0, 1>> ELSE <<b[1] - a[1], b[2] - a[2]>>

\* The unit vector of a segment's bearing.  The model's buses move along the
\* axes, where the unit vector is the sign of the displacement.
UnitBearing(a, b) == <<Sgn(b[1] - a[1]), Sgn(b[2] - a[2])>>

RECURSIVE SumBearings(_, _)
SumBearings(h, i) ==
    IF i > Len(h) THEN [n |-> 0, v |-> <<0, 0>>]
    ELSE LET rest == SumBearings(h, i + 1)
             a == h[i - 1].pos
             b == h[i].pos
         IN IF /\ IsCoordinate(a) /\ IsCoordinate(b)
               /\ DistSq(a, b) >= MIN_MOVEMENT_THRESHOLD_METERS * MIN_MOVEMENT_THRESHOLD_METERS
            THEN [n |-> rest.n + 1,
                  v |-> <<rest.v[1] + UnitBearing(a, b)[1],
                          rest.v[2] + UnitBearing(a, b)[2]>>]
            ELSE rest

NoBearing == <<0, 0>>

\* calculateAverageBearing: the direction of the sum of the unit vectors of
\* the qualifying segments, NoBearing when there is none.  When opposite
\* segments cancel, sumY is exactly 0 and sumX is the rounding residue of
\* cos(90 deg) + cos(270 deg), which is negative: atan2 gives 180 degrees.
calculateAverageBearing(h) ==
    IF Len(h) < 2 THEN NoBearing
    ELSE LET s == SumBearings(h, 2)
         IN IF s.n = 0 THEN NoBearing
            ELSE IF s.v = <<0, 0>> THEN <<0, -1>>
            ELSE s.v

Dot(u, v) == u[1] * v[1] + u[2] * v[2]
NormSq(u) == Dot(u, u)

\* Faulty variant: a difference of exactly 45 degrees is refused.
WithinThresholdStrict(avg, seg) ==
    /\ Dot(avg, seg) >= 0
    /\ 2 * Dot(avg, seg) * Dot(avg, seg) > NormSq(avg) * NormSq(seg)

\* angleDiff <= DIRECTION_MATCH_THRESHOLD_DEGREES (45): cos(angleDiff) >= 1/sqrt(2).
WithinThreshold(avg, seg) ==
    /\ Dot(avg, seg) >= 0
    /\ 2 * Dot(avg, seg) * Dot(avg, seg) >= NormSq(avg) * NormSq(seg)

\* score(seg1) > score(seg2) for two segments within the threshold: the
\* smaller angle has the larger cosine.
ScoreGreater(avg, seg1, seg2) ==
    Dot(avg, seg1) * Dot(avg, seg1) * NormSq(seg2)
        > Dot(avg, seg2) * Dot(avg, seg2) * NormSq(seg1)

\* ------------------------------------------------------------ catalog reader
RECURSIVE SortedSeq(_)
SortedSeq(S) ==
    IF S = {} THEN <<>>
    ELSE LET m == CHOOSE x \in S : \A y \in S : x <= y
         IN <<m>> \o SortedSeq(S \ {m})

\* getOrderedStopsForRouteSublines: the sublines of the route that have
\* stops, by ascending id, each with its ordered stops; null on a storage
\* error (ok = FALSE).
getOrderedStopsForRouteSublines(routeId, dbOk) ==
    IF ~dbOk THEN [ok |-> FALSE, ids |-> <<>>]
    ELSE [ok |-> TRUE,
          ids |-> SortedSeq({s \in SublineIds :
                               SubLineTable[s] = routeId /\ Len(SubLineStops[s]) > 0})]

\* ------------------------------------------------------------------ matcher
NoMatch == [sub |-> None, seg |-> <<0, 0>>]

RECURSIVE MatchSegments(_, _, _, _, _)

\* Faulty variant: a segment that equals the best score replaces the best.
MatchSegmentsLastWins(avg, sub, stops, i, best) ==
    IF i > Len(stops) - 1 THEN best
    ELSE LET seg == calculateBearing(stops[i].pos, stops[i + 1].pos)
             better == /\ WithinThreshold(avg, seg)
                       /\ \/ best.sub = None
                          \/ ~ScoreGreater(avg, best.seg, seg)
         IN MatchSegments(avg, sub, stops, i + 1,
                          IF better THEN [sub |-> sub, seg |-> seg] ELSE best)

\* The inner loop over the consecutive stop pairs of one subline, from pair i.
MatchSegments(avg, sub, stops, i, best) ==
    IF i > Len(stops) - 1 THEN best
    ELSE LET seg == calculateBearing(stops[i].pos, stops[i + 1].pos)
             better == /\ WithinThreshold(avg, seg)
                       /\ \/ best.sub = None
                          \/ ScoreGreater(avg, seg, best.seg)
         IN MatchSegments(avg, sub, stops, i + 1,
                          IF better THEN [sub |-> sub, seg |-> seg] ELSE best)

\* The outer loop over the sublines of the route, from the k-th.
RECURSIVE MatchSublines(_, _, _, _)
MatchSublines(avg, ids, k, best) ==
    IF k > Len(ids) THEN best
    ELSE LET stops == SubLineStops[ids[k]]
         IN MatchSublines(avg, ids, k + 1,
                          IF Len(stops) < 2 THEN best
                          ELSE MatchSegments(avg, ids[k], stops, 1, best))

\* TRUE when the matcher returns before its storage query: the await of the
\* pass is then resumed by the microtask queue alone.
MatcherSkipsQuery(coordHistory) ==
    \/ Len(coordHistory) < MIN_SIGNALS_FOR_DIRECTION
    \/ calculateAverageBearing(coordHistory) = NoBearing

\* matchBusToSublineByHistoryAndRoute: the matched subline id or None.
matchBusToSublineByHistoryAndRoute(mainRouteId, coordHistory, dbOk) ==
    IF MatcherSkipsQuery(coordHistory) THEN None
    ELSE LET q == getOrderedStopsForRouteSublines(mainRouteId, dbOk)
         IN IF ~q.ok \/ Len(q.ids) = 0 THEN None
            ELSE MatchSublines(calculateAverageBearing(coordHistory), q.ids, 1, NoMatch).sub

\* Strings the code transforms are sequences of characters.
Digits == {"0", "1", "2", "3", "4", "5", "6", "7", "8", "9"}

\* new Date(timestamp).toISOString() for the frame whose timestamp is the
\* ts-th second of a fixed minute: YYYY-MM-DDTHH:MM:SS.mmmZ.
toISOString(ts) ==
    <<"2", "0", "2", "4", "-", "0", "1", "-", "1", "5", "T",
      "1", "0", ":", "3", "0", ":", "0", ToString(ts), ".", "0", "0", "0", "Z">>

\* String.prototype.replace(from, to) for a one-character pattern: the first
\* occurrence only.
RECURSIVE replaceFirst(_, _, _)
replaceFirst(s, from, to) ==
    IF s = <<>> THEN <<>>
    ELSE IF s[1] = from THEN <<to>> \o Tail(s)
    ELSE <<s[1]>> \o replaceFirst(Tail(s), from, to)

\* String.prototype.substring(0, end).
substring(s, end) == SubSeq(s, 1, IF Len(s) < end THEN Len(s) ELSE end)

\* replace(/\..*$/, ''): the first dot and all that follows it are removed.
RECURSIVE stripFraction(_)
stripFraction(s) ==
    IF s = <<>> \/ s[1] = "." THEN <<>>
    ELSE <<s[1]>> \o stripFraction(Tail(s))

\* replace(/[...]/g, ''): every character of the class is removed.
RECURSIVE removeAll(_, _)
removeAll(s, class) ==
    IF s = <<>> THEN <<>>
    ELSE (IF s[1] \in class THEN <<>> ELSE <<s[1]>>) \o removeAll(Tail(s), class)

\* The expressions that fill upd and date (the same expression for both) in
\* the close, the position and the esta-info message, for every timestamp
\* of the minute's first seconds.
Seconds == 0..9
formatted ==
    [type \in {"close", "position", "esta-info"}, ts \in Seconds |->
        IF type = "close"
        THEN removeAll(stripFraction(substring(replaceFirst(toISOString(ts), "T", " "), 17)),
                       {"-", ":"})
        ELSE IF type = "position"
        THEN removeAll(stripFraction(substring(replaceFirst(toISOString(ts), "T", " "), 19)),
                       {"-", ":"})
        ELSE removeAll(stripFraction(substring(replaceFirst(toISOString(ts), "T", " "), 19)),
                       {" ", "-", ":"})]

formatTimestamp(type, ts) ==
    IF type \in {"close", "position", "esta-info"} THEN formatted[type, ts] ELSE <<>>

\* ------------------------------------------------------------- the messages
\* Every frame written to a socket or handed to the broadcaster has the same
\* shape; fields a message type does not carry hold their zero.
Msg(type, rtId, bus, pass, ts, pos, vel, stops) ==
    [type |-> type, rt_id |-> rtId, bus |-> bus, pass |-> pass, upd |-> ts,
     pos |-> pos, vel |-> vel, stops |-> stops, route |-> "",
     date |-> formatTimestamp(type, ts), times |-> <<>>]

NoMsg == Msg("none", 0, "", 0, 0, <<0, 0>>, 0, <<>>)

\* A JavaScript value as the broadcaster sees its arguments.
JsNumber(n) == [t |-> "number", num |-> n, obj |-> NoMsg]
JsObject(m) == [t |-> "object", num |-> 0, obj |-> m]
JsUndefined == [t |-> "undefined", num |-> 0, obj |-> NoMsg]

\* The k-th parameter of a function called with the arguments args: a
\* parameter without an argument is undefined.
Param(args, k) == IF k <= Len(args) THEN args[k] ELSE JsUndefined

\* JSON.stringify(message) as the frame ws writes: the message for an object,
\* and for undefined the empty frame that send(undefined) produces.
EmptyFrame == Msg("empty", 0, "", 0, 0, <<0, 0>>, 0, <<>>)
JSONstringify(v) ==
    IF v.t = "object" THEN v.obj
    ELSE IF v.t = "number" THEN Msg("number", v.num, "", 0, 0, <<0, 0>>, 0, <<>>)
    ELSE EmptyFrame

\* Faulty variant: the welcome frame names no route.
WelcomeFrameWithoutRoute(routeId) == Msg("connection", 0, "", 0, 0, <<0, 0>>, 0, <<>>)

\* The welcome frame of a passenger connection.
WelcomeFrame(routeId) == [Msg("connection", 0, "", 0, 0, <<0, 0>>, 0, <<>>) EXCEPT !.route = routeId]

\* Faulty variant: the query has lost its WHERE clause and the parameter is
\* ignored; the last row of the table answers.
getMainRouteIdOfAnyRow(rtId, dbOk) ==
    IF dbOk THEN SubLineTable[CHOOSE s \in SublineIds : \A t \in SublineIds : t <= s]
    ELSE None

\* getMainRouteIdFromRtId of server.js: the lineid of the "SubLine" row whose
\* id is the parameter; null when there is no such row and when the query
\* fails, as it does for a parameter that is not an integer.
getMainRouteIdFromRtId(rtId, dbOk) ==
    IF dbOk /\ rtId.t = "number" /\ rtId.num \in SublineIds
    THEN SubLineTable[rtId.num] ELSE None

\* The closest stop of the sequence to the position: the first index of
\* minimal distance (the scan replaces its candidate on a strictly smaller
\* distance only).
RECURSIVE ClosestFrom(_, _, _, _)
ClosestFrom(stops, p, i, best) ==
    IF i > Len(stops) THEN best
    ELSE ClosestFrom(stops, p, i + 1,
                     IF /\ IsCoordinate(p)
                        /\ \/ best = 0
                           \/ DistSq(p, stops[i].pos) < DistSq(p, stops[best].pos)
                     THEN i ELSE best)

closestStopIndexInSequence(stops, p) == ClosestFrom(stops, p, 1, 0)

\* Faulty variant: the list is not cut after five entries.
upcomingStopsUncapped(stops, p) ==
    LET c == closestStopIndexInSequence(stops, p)
    IN [k \in 1..(Len(stops) - c) |-> stops[c + k].id]

\* upcomingStopsList: the stops after the closest one, at most five.
upcomingStopsList(stops, p) ==
    LET c == closestStopIndexInSequence(stops, p)
        last == IF Len(stops) < c + MAX_UPCOMING_STOPS THEN Len(stops)
                ELSE c + MAX_UPCOMING_STOPS
    IN [k \in 1..(last - c) |-> stops[c + k].id]

\* An estimated arrival: null, or a clock time read off the wall clock
\* (Date.now() plus distance / velocity), of which the model keeps the format.
NoEstimate == "null"

\* Faulty variant: the velocity is not tested.
calculateEstimatedTimeAtAnySpeed(distSq, velocityMps) == "YYYYMMDD HHmmss"

\* calculateEstimatedTime: null when the velocity is 0 or negative.
calculateEstimatedTime(distSq, velocityMps) ==
    IF velocityMps <= 0 THEN NoEstimate ELSE "YYYYMMDD HHmmss"

\* The time fields of the entry pushed for a stop: arr_t and dep_t are the
\* clock time of the estimate and the same plus 30 seconds, or the
\* placeholders when the estimate is null.
stopTimes(stop, p, velocityMps) ==
    LET t == calculateEstimatedTime(DistSq(p, stop.pos), velocityMps)
    IN [stop_id |-> stop.id,
        arr_t |-> IF t # NoEstimate THEN "HHmmss" ELSE "000000",
        dep_t |-> IF t # NoEstimate THEN "HHmmss+30" ELSE "000030",
        esta_time |-> t]

\* The time fields of the entries of upcomingStopsList, in the same order.
upcomingStopTimes(stops, p, velocityMps) ==
    LET c == closestStopIndexInSequence(stops, p)
    IN [k \in 1..Len(upcomingStopsList(stops, p)) |-> stopTimes(stops[c + k], p, velocityMps)]

\* ---------------------------------------------------------------- the state
VARIABLES
    activeBusStates,   \* realtimeProcessor.js activeBusStates: bus id -> state
    passes,            \* the passes of processLocationData suspended in an await
    nframes,           \* driver frames received so far; a frame's timestamp
    dbFails,           \* storage queries that have failed so far
    lookups,           \* calls of broadcastToRouteClients awaiting their route lookup
    ncalls,            \* calls of broadcastToRouteClients so far
    passengerConnectionsByRoute,   \* server.js: route key -> set of sockets
    sockets,           \* the passenger sockets: readyState, route key, frames written
    resolved,          \* (history variable) the calls whose route lookup completed
    received,          \* (history variable) bus id -> what its driver has sent
    lastDone,          \* (history variable) the pass that completed last
    serial,            \* (history variable) bus id -> its state had every frame
                       \* been processed to its commit before the next arrived
    driverSocket,      \* the frames the server has written to the driver socket
                       \* and (history) how many frames it did not accept
    process,           \* the server process: whether it has exited
    stationQueries     \* the calls of getSublinesWithBusesToStation, with their
                       \* results once they have returned

vars == <<activeBusStates, passes, nframes, dbFails, lookups, ncalls,
          passengerConnectionsByRoute, sockets, resolved, received, lastDone,
          serial, driverSocket, process, stationQueries>>

NoCache == [rtId |-> None, stops |-> <<>>]

\* The object a first frame creates for its bus (inMap: activeBusStates has it).
FreshState ==
    [inMap |-> FALSE, history |-> <<>>, mainRtId |-> None,
     currentSublineRtId |-> None, lastProcessedSublineRtId |-> None,
     lastProcessedTimestamp |-> None, stopsForCurrentSublineRtId |-> NoCache]

\* What the driver of a bus has sent: the samples of its last frames, oldest
\* first, how many frames it sent, and the routeId of the last frame with the
\* number of consecutive frames that carried it.  The counts stop at
\* HISTORY_SIZE ("that many or more").
NoFrames == [recent |-> <<>>, count |-> 0, route |-> None, run |-> 0]

UpTo(n) == IF n < HISTORY_SIZE THEN n + 1 ELSE HISTORY_SIZE

Sent(log, routeId, sample) ==
    [recent |-> IF Len(log.recent) < HISTORY_SIZE THEN Append(log.recent, sample)
                ELSE Append(Tail(log.recent), sample),
     count |-> UpTo(log.count),
     route |-> routeId,
     run |-> IF log.route = routeId THEN UpTo(log.run) ELSE 1]

\* The local variables of one call of processLocationData.  frameNo, run,
\* routeChanged and matcherInvoked are history variables: the frame's number
\* among its bus's frames, the number of consecutive frames of the bus that
\* carry this frame's routeId (this one included), whether the frame's
\* routeId differed from the stored main route id, and whether the pass
\* called the matcher.  arrival, matchFailed and stopsFailed are history
\* variables too: the stored current subline when the frame arrived, and
\* whether the catalog query of the matcher, or of the stops fetch, failed.
\* historyLength, matchResult and still are three more: the length of the
\* history once the frame's sample was pushed, what the matcher returned, and
\* whether every movement in the history handed to the matcher was below the
\* noise floor.  bearing is the last: the average bearing the matcher
\* computed, <<0, 0>> when it computed none.
NoPass ==
    [id |-> 0, bus |-> "", mainRouteId |-> None, pos |-> <<0, 0>>, vel |-> 0,
     pc |-> "none", currentSublineRtId |-> None, previousSublineRtId |-> None,
     snap |-> <<>>, micro |-> FALSE, out |-> <<>>,
     frameNo |-> 0, run |-> 0, routeChanged |-> FALSE, matcherInvoked |-> FALSE,
     arrival |-> None, matchFailed |-> FALSE, stopsFailed |-> FALSE,
     historyLength |-> 0, matchResult |-> None, still |-> FALSE,
     bearing |-> <<0, 0>>]

\* The frame the driver socket is sent on connection.
ConnectedFrame == [type |-> "connected", message |-> "Connected to driver location service"]

ErrorFrame(message) == [type |-> "error", message |-> message]
NoReply == [type |-> "none", message |-> ""]

\* What a driver can send besides a location: text that is not JSON, JSON
\* that is not an object (a number, null), and an object without busId.  A
\* missing busId is the empty string.
DriverFrame(json, object, busId) == [json |-> json, object |-> object, busId |-> busId]
InvalidFrames ==
    {DriverFrame(FALSE, FALSE, ""), DriverFrame(TRUE, FALSE, ""), DriverFrame(TRUE, TRUE, "")}

\* Faulty variant: the handler drops what it cannot use without a reply.
onDriverMessageSilent(frame) == NoReply

\* The driver socket's message handler up to its decision: the error frame it
\* sends back, or NoReply when it hands the frame to processLocationData.
onDriverMessage(frame) ==
    IF ~frame.json THEN ErrorFrame("Invalid JSON received")
    ELSE IF frame.object /\ frame.busId # "" THEN NoReply
    ELSE ErrorFrame("Valid object with busId required")

\* The process after start-up.  unhandled is a history variable: the buses
\* whose call of processLocationData ended in a rejection nobody handles.
Running == [exited |-> FALSE, unhandled |-> <<>>]

\* A socket before its upgrade request.  early is a history variable: the
\* socket subscribed before the first driver frame arrived.
NoSocket == [readyState |-> "CONNECTING", routeId |-> "", recv |-> <<>>, early |-> FALSE]

Init ==
    /\ activeBusStates = [b \in Buses |-> FreshState]
    /\ passes = {}
    /\ nframes = 0
    /\ dbFails = 0
    /\ lookups = {}
    /\ ncalls = 0
    /\ passengerConnectionsByRoute = <<>>
    /\ sockets = [c \in Clients |-> NoSocket]
    /\ resolved = {}
    /\ received = [b \in Buses |-> NoFrames]
    /\ lastDone = [pass |-> NoPass, after |-> FreshState]
    /\ serial = [b \in Buses |-> FreshState]
    /\ driverSocket = [sent |-> <<ConnectedFrame>>, rejected |-> 0]
    /\ process = Running
    /\ stationQueries = {}

\* ------------------------------------------------------- processLocationData
\* Faulty variant: the history is never trimmed.
PushWithoutSlice(h, sample) == Append(h, sample)

\* history.push, then slice(-HISTORY_SIZE) when longer.
PushHistory(h, sample) ==
    LET h2 == Append(h, sample)
    IN IF Len(h2) > HISTORY_SIZE
       THEN SubSeq(h2, Len(h2) - HISTORY_SIZE + 1, Len(h2))
       ELSE h2

\* Faulty variant: the matcher is consulted whatever route the frame names.
ShouldMatchAnyRoute(st, mainRouteId) ==
    Len(st.history) >= MIN_SIGNALS_FOR_DIRECTION

\* The condition under which the pass awaits the matcher.
ShouldMatch(st, mainRouteId) ==
    /\ Len(st.history) >= MIN_SIGNALS_FOR_DIRECTION
    /\ st.mainRtId = mainRouteId

\* The close message is sent when the previous subline is set and differs
\* from the current one.
ShouldClose(previousSublineRtId, currentSublineRtId) ==
    /\ previousSublineRtId # None
    /\ previousSublineRtId # currentSublineRtId

\* history[length - 2]?.lat || currentLat: the coordinate of the sample before
\* the last one, the frame's own when there is none or when it is 0 or missing.
PrevCoord(h, k, own) ==
    IF Len(h) >= 2 /\ h[Len(h) - 1].pos[k] \notin {0, Missing}
    THEN h[Len(h) - 1].pos[k] ELSE own[k]

closeMessage(p, st) ==
    Msg("close", p.previousSublineRtId, p.bus, p.id,
        IF st.lastProcessedTimestamp # None THEN st.lastProcessedTimestamp ELSE p.id,
        <<PrevCoord(st.history, 1, p.pos), PrevCoord(st.history, 2, p.pos)>>,
        0, <<>>)

\* Faulty variant: the position is labelled with the previous subline.
positionMessageForPrevious(p, cur) ==
    Msg("position", p.previousSublineRtId, p.bus, p.id, p.id, p.pos, p.vel * 36, <<>>)

\* vel is in tenths of km/h: m/s * 3.6.
positionMessage(p, cur) ==
    Msg("position", cur, p.bus, p.id, p.id, p.pos, p.vel * 36, <<>>)

estaInfoMessage(p, stops) ==
    [Msg("esta-info", p.currentSublineRtId, p.bus, p.id, p.id, p.pos, p.vel * 36,
         upcomingStopsList(stops, p.pos))
     EXCEPT !.times = upcomingStopTimes(stops, p.pos, p.vel)]

\* The cache holds a non-empty stop list for the current subline.
stopsAvailable(c, cur) == c.rtId = cur /\ Len(c.stops) > 0

\* From the esta-info block's use of the cached stops to the commit.
Complete(p, st) ==
    LET c == st.stopsForCurrentSublineRtId
        esta == IF /\ p.currentSublineRtId # None
                   /\ stopsAvailable(c, p.currentSublineRtId)
                   /\ closestStopIndexInSequence(c.stops, p.pos) # 0
                THEN <<estaInfoMessage(p, c.stops)>>
                ELSE <<>>
    IN [done |-> TRUE,
        st |-> [st EXCEPT !.inMap = TRUE,
                          !.mainRtId = p.mainRouteId,
                          !.currentSublineRtId = p.currentSublineRtId,
                          !.lastProcessedSublineRtId = p.currentSublineRtId,
                          !.lastProcessedTimestamp = p.id],
        pass |-> [p EXCEPT !.pc = "done", !.out = @ \o esta]]

\* From the end of subline inference to the await of the stops (a cache
\* miss) or to the commit.
AfterInference(p, st, cur) ==
    LET out1 == IF ShouldClose(p.previousSublineRtId, cur)
                THEN <<closeMessage(p, st)>> ELSE <<>>
        out2 == IF cur # None THEN <<positionMessage(p, cur)>> ELSE <<>>
        c == st.stopsForCurrentSublineRtId
        q == [p EXCEPT !.currentSublineRtId = cur, !.out = @ \o out1 \o out2,
                       !.micro = FALSE]
    IN IF cur # None /\ (c.rtId = None \/ c.rtId # cur)
       THEN [done |-> FALSE, st |-> st, pass |-> [q EXCEPT !.pc = "stops"]]
       ELSE Complete(q, st)

\* Faulty variant: the reset leaves the cached stops in place.
ResetKeepingStops(st, mainRouteId) ==
    [st EXCEPT !.mainRtId = mainRouteId,
               !.currentSublineRtId = None,
               !.lastProcessedSublineRtId = None]

\* The reset of the subline state when the main route changed.
ResetSublineState(st, mainRouteId) ==
    [st EXCEPT !.mainRtId = mainRouteId,
               !.currentSublineRtId = None,
               !.lastProcessedSublineRtId = None,
               !.stopsForCurrentSublineRtId = NoCache]

\* From the frame's arrival to the first await or to the commit.
Begin(p, st0) ==
    LET st1 == [st0 EXCEPT !.history = PushHistory(@, [pos |-> p.pos, ts |-> p.id])]
        q == [p EXCEPT !.currentSublineRtId = st1.currentSublineRtId,
                       !.arrival = st1.currentSublineRtId,
                       !.historyLength = Len(st1.history),
                       !.previousSublineRtId = st1.lastProcessedSublineRtId,
                       !.routeChanged = (st1.mainRtId # p.mainRouteId)]
    IN IF ShouldMatch(st1, p.mainRouteId)
       THEN [done |-> FALSE, st |-> st1,
             pass |-> [q EXCEPT !.pc = "match", !.snap = st1.history,
                                !.micro = MatcherSkipsQuery(st1.history),
                                !.matcherInvoked = TRUE]]
       ELSE IF st1.mainRtId # p.mainRouteId
            THEN AfterInference(q, ResetSublineState(st1, p.mainRouteId), None)
            ELSE AfterInference(q, st1, q.currentSublineRtId)

\* Every consecutive pair of the samples is closer than the noise floor.
BelowNoiseFloor(h) ==
    \A k \in 2..Len(h) :
        DistSq(h[k - 1].pos, h[k].pos)
            < MIN_MOVEMENT_THRESHOLD_METERS * MIN_MOVEMENT_THRESHOLD_METERS

\* Faulty variant: a matcher that returns nothing clears the current subline.
AfterMatchForgetting(p, st, dbOk) ==
    LET m == matchBusToSublineByHistoryAndRoute(p.mainRouteId, p.snap, dbOk)
    IN AfterInference([p EXCEPT !.snap = <<>>,
                                !.matchFailed = ~MatcherSkipsQuery(p.snap) /\ ~dbOk,
                                !.matchResult = m,
                                !.still = BelowNoiseFloor(p.snap),
                                !.bearing = calculateAverageBearing(p.snap)],
                      st, m)

\* The matcher's result arrives.
AfterMatch(p, st, dbOk) ==
    LET m == matchBusToSublineByHistoryAndRoute(p.mainRouteId, p.snap, dbOk)
    IN AfterInference([p EXCEPT !.snap = <<>>,
                                !.matchFailed = ~MatcherSkipsQuery(p.snap) /\ ~dbOk,
                                !.matchResult = m,
                                !.still = BelowNoiseFloor(p.snap),
                                !.bearing = calculateAverageBearing(p.snap)],
                      st, IF m # None THEN m ELSE p.currentSublineRtId)

\* Faulty variant: the fetched stops are not stored in the cache.
AfterStopsNotCached(p, st, dbOk) == Complete(p, st)

\* The stops of the main route arrive.
AfterStops(p, st, dbOk) ==
    LET q == getOrderedStopsForRouteSublines(p.mainRouteId, dbOk)
        has == q.ok /\ \E k \in 1..Len(q.ids) : q.ids[k] = p.currentSublineRtId
    IN Complete([p EXCEPT !.stopsFailed = ~dbOk],
                [st EXCEPT !.stopsForCurrentSublineRtId =
                        [rtId |-> p.currentSublineRtId,
                         stops |-> IF has THEN SubLineStops[p.currentSublineRtId]
                                   ELSE <<>>]])

\* A pass run from its first suspension to its commit with nothing in between
\* and the storage healthy: what the per-bus serialisation of the
\* specification would yield.
RECURSIVE InOrder(_)
InOrder(r) ==
    IF r.done THEN r.st
    ELSE IF r.pass.pc = "match"
         THEN InOrder(AfterMatch(r.pass, r.st, TRUE))
         ELSE InOrder(AfterStops(r.pass, r.st, TRUE))

\* ------------------------------------------------------------------ actions
MicroPending == {p \in passes : p.micro}

\* A storage query fails: at most MaxDbFailures times in a behaviour.
DbOutcome(dbOk) ==
    IF dbOk THEN UNCHANGED dbFails
    ELSE dbFails < MaxDbFailures /\ dbFails' = dbFails + 1

\* broadcastToRouteClients(rtId, message), called with the arguments args as
\* the n-th call: it starts the route lookup of its rtId and returns.  given
\* is a history variable: the message the pipeline handed over in the call.
broadcastToRouteClients(args, n) ==
    [seq |-> n, rtId |-> Param(args, 1), message |-> Param(args, 2),
     given |-> args[1].obj]

\* What a stretch of a pass leaves behind; sent is the number of messages the
\* pass had handed to broadcastToRouteClientsFunction before the stretch.
\* Every message is handed over as the only argument of the call.
Apply(id, sent, r) ==
    /\ activeBusStates' = [activeBusStates EXCEPT ![r.pass.bus] = r.st]
    /\ passes' = {p \in passes : p.id # id} \cup (IF r.done THEN {} ELSE {r.pass})
    /\ lastDone' = IF r.done THEN [pass |-> r.pass, after |-> r.st] ELSE lastDone
    /\ ncalls' = ncalls + Len(r.pass.out) - sent
    /\ lookups' = lookups \cup
           {broadcastToRouteClients(<<JsObject(r.pass.out[k])>>, ncalls + k - sent) :
                k \in (sent + 1)..Len(r.pass.out)}

\* The driver socket's message handler on a frame it does not hand to
\* processLocationData: it replies and returns.
RejectFrame(frame) ==
    /\ frame \in InvalidFrames
    /\ driverSocket.rejected < MaxRejected
    /\ \E reply \in {onDriverMessage(frame)} :
           driverSocket' =
               [sent |-> IF reply = NoReply THEN driverSocket.sent
                         ELSE Append(driverSocket.sent, reply),
                rejected |-> driverSocket.rejected + 1]
    /\ UNCHANGED <<stationQueries, activeBusStates, passes, nframes, dbFails, lookups, ncalls,
                   passengerConnectionsByRoute, sockets, resolved, received, lastDone,
                   serial, process>>

\* The driver socket's message handler calls processLocationData.
Receive(b, routeId, pos, vel) ==
    /\ onDriverMessage(DriverFrame(TRUE, TRUE, b)) = NoReply
    /\ Cardinality(passes) < MaxInFlight
    /\ LET ts == nframes + 1
           log == Sent(received[b], routeId, [pos |-> pos, ts |-> ts])
           p == [NoPass EXCEPT !.id = ts, !.bus = b, !.mainRouteId = routeId,
                               !.pos = pos, !.vel = vel, !.pc = "start",
                               !.frameNo = log.count, !.run = log.run]
       IN /\ nframes' = ts
          /\ received' = [received EXCEPT ![b] = log]
          /\ serial' = [serial EXCEPT ![b] = InOrder(Begin(p, serial[b]))]
          /\ \E r \in {Begin(p, activeBusStates[b])} : Apply(ts, 0, r)
    /\ UNCHANGED <<stationQueries, dbFails, passengerConnectionsByRoute, sockets, resolved,
                   driverSocket, process>>

\* The handler calls processLocationData for a frame of the bus that has no
\* timestamp, or one Date cannot parse: toISOString throws a RangeError on
\* the first line of the body, before any state is read.  The promise of the
\* call rejects; the handler does not await it and attached no catch, so the
\* rejection is unhandled.  What follows is the runtime's choice: a warning
\* (Node.js before 15, or --unhandled-rejections=warn), or an uncaught
\* exception that ends the process.
ReceiveWithoutTimestamp(b, exits) ==
    /\ onDriverMessage(DriverFrame(TRUE, TRUE, b)) = NoReply
    /\ Len(process.unhandled) < MaxUnhandled
    /\ process' = [exited |-> exits, unhandled |-> Append(process.unhandled, b)]
    /\ UNCHANGED <<stationQueries, activeBusStates, passes, nframes, dbFails, lookups, ncalls,
                   passengerConnectionsByRoute, sockets, resolved, received, lastDone,
                   serial, driverSocket>>

\* The await of the matcher resumes: on the microtask queue, in order, when
\* the matcher made no query, and on the query's completion otherwise.
ResumeMatch(p, dbOk) ==
    /\ p \in passes /\ p.pc = "match"
    /\ IF p.micro
       THEN dbOk /\ \A q \in MicroPending : p.id <= q.id
       ELSE MicroPending = {}
    /\ DbOutcome(dbOk)
    /\ \E r \in {AfterMatch(p, activeBusStates[p.bus], dbOk)} : Apply(p.id, Len(p.out), r)
    /\ UNCHANGED <<stationQueries, nframes, received, passengerConnectionsByRoute, sockets, resolved,
                   serial, driverSocket, process>>

\* The await of getOrderedStopsForRouteSublines in the esta-info block resumes.
ResumeStops(p, dbOk) ==
    /\ p \in passes /\ p.pc = "stops"
    /\ MicroPending = {}
    /\ DbOutcome(dbOk)
    /\ \E r \in {AfterStops(p, activeBusStates[p.bus], dbOk)} : Apply(p.id, Len(p.out), r)
    /\ UNCHANGED <<stationQueries, nframes, received, passengerConnectionsByRoute, sockets, resolved,
                   serial, driverSocket, process>>

\* The route lookup of a call of broadcastToRouteClients completes; lookups
\* complete in any order.  On a route with subscribers the message is written
\* to every socket of the set that is open.
ResolveLookup(l, dbOk) ==
    /\ l \in lookups
    /\ DbOutcome(dbOk)
    /\ lookups' = lookups \ {l}
    /\ resolved' = resolved \cup {l}
    /\ LET routeId == getMainRouteIdFromRtId(l.rtId, dbOk)
           key == ToString(routeId)     \* routeId.toString()
           clients == IF routeId # None /\ key \in DOMAIN passengerConnectionsByRoute
                      THEN passengerConnectionsByRoute[key] ELSE {}
       IN sockets' = [c \in Clients |->
              IF c \in clients /\ sockets[c].readyState = "OPEN"
              THEN [sockets[c] EXCEPT !.recv = Append(@, [data |-> JSONstringify(l.message),
                                                          given |-> l.given])]
              ELSE sockets[c]]
    /\ UNCHANGED <<stationQueries, activeBusStates, passes, nframes, ncalls, passengerConnectionsByRoute,
                   received, lastDone,
                   serial, driverSocket, process>>

\* wss.on('connection') for a passenger: the socket joins the set of its
\* route, created when missing, and is sent the welcome frame.
Connect(c, routeId) ==
    /\ sockets[c].readyState = "CONNECTING"
    /\ \A d \in Clients : d < c => sockets[d].readyState # "CONNECTING"
    /\ passengerConnectionsByRoute' =
           [k \in DOMAIN passengerConnectionsByRoute \cup {routeId} |->
               IF k = routeId
               THEN (IF k \in DOMAIN passengerConnectionsByRoute
                     THEN passengerConnectionsByRoute[k] ELSE {}) \cup {c}
               ELSE passengerConnectionsByRoute[k]]
    /\ sockets' = [sockets EXCEPT ![c] =
           [readyState |-> "OPEN", routeId |-> routeId,
            recv |-> <<[data |-> WelcomeFrame(routeId), given |-> NoMsg]>>,
            early |-> (nframes = 0)]]
    /\ UNCHANGED <<stationQueries, activeBusStates, passes, nframes, dbFails, lookups, ncalls,
                   resolved, received, lastDone,
                   serial, driverSocket, process>>

\* request.url of an upgrade, as the part the handler compares and the
\* characters that follow it.
DriverPath == "/api/driver-location-ws"
PassengerPath == "/api/passenger-realtime-ws/"
Url(path, rest) == [path |-> path, rest |-> rest]

\* The URLs of upgrades that name neither endpoint: the passenger path
\* without a route, with a route that is not a number, with a query string,
\* the driver path with a suffix, and another path.
UnknownUrls ==
    {Url(PassengerPath, <<>>), Url(PassengerPath, <<"x">>),
     Url(PassengerPath, <<"1", "?">>), Url(DriverPath, <<"/">>), Url("/", <<>>)}
PassengerUrls == {Url(PassengerPath, <<k>>) : k \in RouteKeys}

\* /^\/api\/passenger-realtime-ws\/(\d+)$/
passengerWsRegex(url) ==
    /\ url.path = PassengerPath
    /\ Len(url.rest) > 0
    /\ \A k \in 1..Len(url.rest) : url.rest[k] \in Digits

\* server.on('upgrade'): the arguments of the connection event it emits, or
\* the destruction of the TCP socket (the routes of the model have one digit).
onUpgrade(url) ==
    IF url = Url(DriverPath, <<>>) THEN [connectionType |-> "driver", routeId |-> ""]
    ELSE IF passengerWsRegex(url)
         THEN [connectionType |-> "passenger", routeId |-> url.rest[1]]
         ELSE [connectionType |-> "destroy", routeId |-> ""]

\* The branch wss.on('connection') takes.
onConnection(connectionType, routeId) ==
    IF connectionType = "driver" THEN "driver"
    ELSE IF connectionType = "passenger" /\ routeId # "" THEN "passenger"
    ELSE "close"

\* The close frame of ws.close(code, reason).
CloseFrame(code) == [type |-> "close", code |-> code]

\* An upgrade that leads to no subscription.  On a URL that names neither
\* endpoint the handler destroys the TCP socket: the handshake is not
\* completed and no WebSocket frame is written.  In the last branch of the
\* connection handler the socket is closed with code 1008.  Such a socket
\* keeps the empty routeId.
RefuseUpgrade(c, url) ==
    /\ sockets[c].readyState = "CONNECTING"
    /\ \A d \in Clients : d < c => sockets[d].readyState # "CONNECTING"
    /\ LET u == onUpgrade(url)
       IN /\ u.connectionType = "destroy" \/ onConnection(u.connectionType, u.routeId) = "close"
          /\ sockets' = [sockets EXCEPT ![c] =
                 IF u.connectionType = "destroy"
                 THEN [NoSocket EXCEPT !.readyState = "DESTROYED"]
                 ELSE [NoSocket EXCEPT !.readyState = "CLOSING",
                                       !.recv = <<[data |-> CloseFrame(1008), given |-> NoMsg]>>]]
    /\ UNCHANGED <<stationQueries, activeBusStates, passes, nframes, dbFails, lookups, ncalls,
                   passengerConnectionsByRoute, resolved, received, lastDone,
                   serial, driverSocket, process>>

\* The closing handshake of a socket starts: it is no longer OPEN.
StartClose(c) ==
    /\ sockets[c].readyState = "OPEN"
    /\ sockets' = [sockets EXCEPT ![c].readyState = "CLOSING"]
    /\ UNCHANGED <<stationQueries, activeBusStates, passes, nframes, dbFails, lookups, ncalls,
                   passengerConnectionsByRoute, resolved, received, lastDone,
                   serial, driverSocket, process>>

\* ws.on('error') of a passenger: the socket leaves the set of its route;
\* the set stays in the map even when it is empty.
ErrorEvent(c) ==
    /\ sockets[c].readyState = "OPEN"
    /\ sockets' = [sockets EXCEPT ![c].readyState = "CLOSING"]
    /\ LET k == sockets[c].routeId
       IN passengerConnectionsByRoute' =
              IF k \in DOMAIN passengerConnectionsByRoute
              THEN [passengerConnectionsByRoute EXCEPT ![k] = @ \ {c}]
              ELSE passengerConnectionsByRoute
    /\ UNCHANGED <<stationQueries, activeBusStates, passes, nframes, dbFails, lookups, ncalls,
                   resolved, received, lastDone,
                   serial, driverSocket, process>>

\* Faulty variant: the close handler leaves the registry as it is.
CloseWithoutRemoval(c) ==
    /\ sockets[c].readyState = "CLOSING"
    /\ sockets' = [sockets EXCEPT ![c].readyState = "CLOSED"]
    /\ UNCHANGED <<stationQueries, activeBusStates, passes, nframes, dbFails, lookups, ncalls,
                   passengerConnectionsByRoute, resolved, received, lastDone,
                   serial, driverSocket, process>>

\* ws.on('close') of a passenger: the socket leaves the set of its route and
\* the set leaves the map when it is empty.
CloseEvent(c) ==
    /\ sockets[c].readyState = "CLOSING"
    /\ sockets' = [sockets EXCEPT ![c].readyState = "CLOSED"]
    /\ LET k == sockets[c].routeId
       IN passengerConnectionsByRoute' =
              IF k \in DOMAIN passengerConnectionsByRoute
              THEN IF passengerConnectionsByRoute[k] \ {c} = {}
                   THEN [j \in DOMAIN passengerConnectionsByRoute \ {k} |->
                            passengerConnectionsByRoute[j]]
                   ELSE [passengerConnectionsByRoute EXCEPT ![k] = @ \ {c}]
              ELSE passengerConnectionsByRoute
    /\ UNCHANGED <<stationQueries, activeBusStates, passes, nframes, dbFails, lookups, ncalls,
                   resolved, received, lastDone,
                   serial, driverSocket, process>>

\* ---------------------------------------------------------- the station query
\* The stations a query may name (no subline serves station 9), and the
\* limits it may pass (parseInt(req.query.res) || 10 in the controller:
\* never zero).
Stations == {2, 3, 9}
Limits == {1, 2}

\* The first query: the ids of the sublines that have the station among
\* their stops, by ascending id.
sublinesForStation(targetStationId) ==
    SortedSeq({s \in SublineIds :
                 \E k \in 1..Len(SubLineStops[s]) : SubLineStops[s][k].id = targetStationId})

\* stopsOnBusSubline.findIndex(stop => stop.id === targetStationId), counted
\* from 1: 0 when no stop has the id.
targetStopIndex(stops, targetStationId) ==
    IF \E k \in 1..Len(stops) : stops[k].id = targetStationId
    THEN CHOOSE k \in 1..Len(stops) :
             /\ stops[k].id = targetStationId
             /\ \A j \in 1..(k - 1) : stops[j].id # targetStationId
    ELSE 0

\* busState.lat and busState.lng, busState.velocity, as the scan reads them.
\* The object of a bus has the properties history, mainRtId,
\* currentSublineRtId, lastProcessedSublineRtId, lastProcessedTimestamp and
\* stopsForCurrentSublineRtId and no other: processLocationData keeps the
\* frame's lat, lng and velocity in its history entries and in locals.  The
\* reads yield undefined.
busCoordinate(busState) == NoCoordinate
busVelocity(busState) == Missing

\* currentVel > 0.5, false for undefined.
Moving(v) == v # Missing /\ 2 * v > 1

\* findUpcomingStopsOnSubline: the index of the closest stop, counted from 1;
\* 0 for null (no stops, or no stop at a distance that is a number).
findUpcomingStopsOnSubline(stopsOnSubline, p) ==
    IF Len(stopsOnSubline) = 0 THEN 0
    ELSE closestStopIndexInSequence(stopsOnSubline, p)

\* The body of the loop over activeBusStates for one bus: the hint it pushes,
\* if any.  The estimated time is kept as the pair of the squared distance
\* and the velocity; finite is FALSE for Infinity.
departureOf(busId, busState, sublineIds, targetStationId) ==
    LET currentRtId == busState.currentSublineRtId
        p == busCoordinate(busState)
        v == busVelocity(busState)
        stops == SubLineStops[currentRtId]
        t == targetStopIndex(stops, targetStationId)
        c == findUpcomingStopsOnSubline(stops, p)
    IN IF currentRtId = None \/ \A k \in 1..Len(sublineIds) : sublineIds[k] # currentRtId
       THEN <<>>
       ELSE IF Len(stops) = 0 \/ t = 0 \/ c = 0 \/ ~(t > c)
            THEN <<>>
            ELSE <<[rt_id |-> currentRtId, bus_id |-> busId, current_pos |-> p,
                    current_vel |-> v, finite |-> Moving(v),
                    distSq |-> DistSq(p, stops[t].pos)]>>

RECURSIVE potentialDepartures(_, _, _)
potentialDepartures(order, sublineIds, targetStationId) ==
    IF order = <<>> THEN <<>>
    ELSE departureOf(order[1], activeBusStates[order[1]], sublineIds, targetStationId)
         \o potentialDepartures(Tail(order), sublineIds, targetStationId)

\* The comparator of the sort is negative: a is estimated to arrive strictly
\* sooner than b (d_a / v_a < d_b / v_b, compared squared).
Sooner(a, b) ==
    IF ~a.finite THEN FALSE
    ELSE IF ~b.finite THEN TRUE
    ELSE a.distSq * b.current_vel * b.current_vel < b.distSq * a.current_vel * a.current_vel

\* Array.prototype.sort with that comparator: a stable sort.
RECURSIVE InsertDeparture(_, _)
InsertDeparture(sorted, h) ==
    IF sorted = <<>> THEN <<h>>
    ELSE IF Sooner(h, sorted[1]) THEN <<h>> \o sorted
    ELSE <<sorted[1]>> \o InsertDeparture(Tail(sorted), h)

RECURSIVE sortDepartures(_)
sortDepartures(list) ==
    IF list = <<>> THEN <<>>
    ELSE InsertDeparture(sortDepartures(SubSeq(list, 1, Len(list) - 1)), list[Len(list)])

\* potentialDepartures.slice(0, limit), for a positive limit.
finalDepartures(list, limit) ==
    SubSeq(list, 1, IF Len(list) < limit THEN Len(list) ELSE limit)

\* The orders in which the Map may iterate over the buses it holds: the
\* order of their first commits, which the state does not record.
Active == {b \in Buses : activeBusStates[b].inMap}
IterationOrders ==
    {o \in UNION {[1..k -> Buses] : k \in 0..Cardinality(Buses)} :
        /\ Len(o) = Cardinality(Active)
        /\ \A b \in Active : \E k \in 1..Len(o) : o[k] = b}

\* One call of getSublinesWithBusesToStation.  seen, iterated and lastCommit
\* are history variables: the bus objects the loop iterated over as they
\* were then, and the pass that had completed last.
NoQuery ==
    [id |-> 0, targetStationId |-> None, limit |-> 0, pc |-> "none",
     sublineIds |-> <<>>, result |-> <<>>, failed |-> FALSE,
     iterated |-> {}, seen |-> [b \in Buses |-> FreshState],
     lastCommit |-> [pass |-> NoPass, after |-> FreshState]]

Returned(q, ok) == [q EXCEPT !.pc = "returned", !.failed = ~ok]

\* The call: up to the await of the first query.
getSublinesWithBusesToStation(targetStationId, limit) ==
    /\ Cardinality(stationQueries) < MaxQueries
    /\ stationQueries' = stationQueries \cup
           {[NoQuery EXCEPT !.id = Cardinality(stationQueries) + 1,
                            !.targetStationId = targetStationId,
                            !.limit = limit, !.pc = "sublines"]}
    /\ UNCHANGED <<activeBusStates, passes, nframes, dbFails, lookups, ncalls,
                   passengerConnectionsByRoute, sockets, resolved, received, lastDone,
                   serial, driverSocket, process>>

\* The first query completes: an empty list when no subline serves the
\* station or when the query failed (the catch), the second query otherwise.
ResumeSublinesQuery(q, dbOk) ==
    /\ q \in stationQueries /\ q.pc = "sublines"
    /\ MicroPending = {}
    /\ DbOutcome(dbOk)
    /\ LET ids == sublinesForStation(q.targetStationId)
       IN stationQueries' = (stationQueries \ {q}) \cup
              {IF ~dbOk THEN Returned(q, FALSE)
               ELSE IF Len(ids) = 0 THEN Returned(q, TRUE)
               ELSE [q EXCEPT !.pc = "stops", !.sublineIds = ids]}
    /\ UNCHANGED <<activeBusStates, passes, nframes, lookups, ncalls,
                   passengerConnectionsByRoute, sockets, resolved, received, lastDone,
                   serial, driverSocket, process>>

\* The second query completes: the loop over activeBusStates, the sort and
\* the slice run without a suspension.
ResumeStopsQuery(q, dbOk, order) ==
    /\ q \in stationQueries /\ q.pc = "stops"
    /\ MicroPending = {}
    /\ DbOutcome(dbOk)
    /\ stationQueries' = (stationQueries \ {q}) \cup
           {IF ~dbOk THEN Returned(q, FALSE)
            ELSE [Returned(q, TRUE) EXCEPT
                      !.result = finalDepartures(
                                     sortDepartures(potentialDepartures(
                                         order, q.sublineIds, q.targetStationId)),
                                     q.limit),
                      !.iterated = Active,
                      !.seen = [b \in Buses |-> IF b \in Active THEN activeBusStates[b]
                                                ELSE FreshState],
                      !.lastCommit = lastDone]}
    /\ UNCHANGED <<activeBusStates, passes, nframes, lookups, ncalls,
                   passengerConnectionsByRoute, sockets, resolved, received, lastDone,
                   serial, driverSocket, process>>

\* processLocationData under every input and storage outcome.
NextPipeline ==
    \/ /\ nframes < MaxFrames
       /\ \E r \in Routes, pos \in Positions, v \in Velocities : Receive("B1", r, pos, v)
    \/ \E p \in passes, dbOk \in BOOLEAN : ResumeMatch(p, dbOk)
    \/ \E p \in passes, dbOk \in BOOLEAN : ResumeStops(p, dbOk)

SpecPipeline == Init /\ [][NextPipeline]_vars

\* The drivers of two buses of route 1 and the station query.
NextStation ==
    \/ /\ nframes < MaxStationFrames
       /\ \E b \in Buses, pos \in Positions, v \in Velocities : Receive(b, 1, pos, v)
    \/ \E p \in passes : ResumeMatch(p, TRUE)
    \/ \E p \in passes : ResumeStops(p, TRUE)
    \/ \E s \in Stations, n \in Limits : getSublinesWithBusesToStation(s, n)
    \/ \E q \in stationQueries, dbOk \in BOOLEAN : ResumeSublinesQuery(q, dbOk)
    \/ \E q \in stationQueries, dbOk \in BOOLEAN, o \in IterationOrders :
           ResumeStopsQuery(q, dbOk, o)

SpecStation == Init /\ [][NextStation]_vars

\* The matcher on the catalog of routes 1 and 3 with the storage healthy.
NextMatcher ==
    \/ /\ nframes < MaxMatcherFrames
       /\ \E r \in {1, 3}, pos \in Positions, v \in Velocities : Receive("B1", r, pos, v)
    \/ \E p \in passes : ResumeMatch(p, TRUE)
    \/ \E p \in passes : ResumeStops(p, TRUE)

SpecMatcher == Init /\ [][NextMatcher]_vars

\* The esta-info block on route 4, whose subline has eight stops: a bus at
\* the first stop, halfway between the first two, or at the last one, that
\* moves forward, stands still or reports a negative velocity.
EstaPositions == {<<0, 0>>, <<25, 0>>, <<350, 0>>}
EstaVelocities == {-5, 0, 10}
NextEsta ==
    \/ /\ nframes < MaxEstaFrames
       /\ \E pos \in EstaPositions, v \in EstaVelocities : Receive("B1", 4, pos, v)
    \/ \E p \in passes : ResumeMatch(p, TRUE)
    \/ \E p \in passes : ResumeStops(p, TRUE)

SpecEsta == Init /\ [][NextEsta]_vars

\* A bus of route 3 that moves east and then turns north, so that the
\* matcher moves it from one subline to another, with the storage healthy.
TurnPositions == {<<0, 0>>, <<50, 0>>, <<50, 50>>}
NextTurn ==
    \/ /\ nframes < MaxTurnFrames
       /\ \E pos \in TurnPositions, v \in Velocities : Receive("B1", 3, pos, v)
    \/ \E p \in passes : ResumeMatch(p, TRUE)
    \/ \E p \in passes : ResumeStops(p, TRUE)

SpecTurn == Init /\ [][NextTurn]_vars

\* A longer run of a bus that stays on route 1 with the storage healthy.
NextLongRun ==
    \/ /\ nframes < MaxLongFrames
       /\ \E pos \in Positions, v \in Velocities : Receive("B1", 1, pos, v)
    \/ \E p \in passes : ResumeMatch(p, TRUE)
    \/ \E p \in passes : ResumeStops(p, TRUE)

SpecLongRun == Init /\ [][NextLongRun]_vars

\* The server with the storage healthy: a driver on route 1, the broadcaster
\* and the passengers.
Next ==
    \/ /\ nframes < MaxServedFrames
       /\ Cardinality(lookups) < MaxLookups
       /\ \E pos \in Positions, v \in Velocities : Receive("B1", 1, pos, v)
    \/ /\ Cardinality(lookups) < MaxLookups
       /\ \E p \in passes : ResumeMatch(p, TRUE)
    \/ /\ Cardinality(lookups) < MaxLookups
       /\ \E p \in passes : ResumeStops(p, TRUE)
    \/ \E l \in lookups : ResolveLookup(l, TRUE)
    \/ \E c \in Subscribers, k \in RouteKeys : Connect(c, k)
    \/ \E c \in Subscribers : StartClose(c)
    \/ \E c \in Subscribers : ErrorEvent(c)
    \/ \E c \in Subscribers : CloseEvent(c)

Spec == Init /\ [][Next]_vars

\* The same server when the route lookups of the broadcaster may fail.
NextLookups ==
    \/ /\ nframes < MaxServedFrames
       /\ Cardinality(lookups) < MaxLookups
       /\ \E pos \in Positions, v \in Velocities : Receive("B1", 1, pos, v)
    \/ /\ Cardinality(lookups) < MaxLookups
       /\ \E p \in passes : ResumeMatch(p, TRUE)
    \/ /\ Cardinality(lookups) < MaxLookups
       /\ \E p \in passes : ResumeStops(p, TRUE)
    \/ \E l \in lookups, dbOk \in BOOLEAN : ResolveLookup(l, dbOk)
    \/ \E c \in Subscribers, k \in RouteKeys : Connect(c, k)
    \/ \E c \in Subscribers : StartClose(c)
    \/ \E c \in Subscribers : ErrorEvent(c)
    \/ \E c \in Subscribers : CloseEvent(c)

SpecLookups == Init /\ [][NextLookups]_vars

\* The driver socket's message handler with the storage healthy: location
\* frames of a bus on route 1 and frames the handler does not accept.
NextIngress ==
    \/ /\ nframes < MaxServedFrames
       /\ \E pos \in Positions, v \in Velocities : Receive("B1", 1, pos, v)
    \/ \E frame \in InvalidFrames : RejectFrame(frame)
    \/ \E p \in passes : ResumeMatch(p, TRUE)
    \/ \E p \in passes : ResumeStops(p, TRUE)

SpecIngress == Init /\ [][NextIngress]_vars

\* The pipeline behind the driver socket until the process exits: location
\* frames of two buses on route 1, with or without coordinates and
\* timestamp, and storage failures.
NextDriver ==
    \/ /\ ~process.exited
       /\ nframes < MaxDriverFrames
       /\ \E b \in Buses, pos \in Positions \cup {NoCoordinate}, v \in Velocities :
              Receive(b, 1, pos, v)
    \/ /\ ~process.exited
       /\ \E b \in Buses, exits \in BOOLEAN : ReceiveWithoutTimestamp(b, exits)
    \/ /\ ~process.exited
       /\ \E p \in passes, dbOk \in BOOLEAN : ResumeMatch(p, dbOk)
    \/ /\ ~process.exited
       /\ \E p \in passes, dbOk \in BOOLEAN : ResumeStops(p, dbOk)

SpecDriver == Init /\ [][NextDriver]_vars

\* The same server with several passengers.
NextFanout ==
    \/ /\ nframes < MaxServedFrames
       /\ Cardinality(lookups) < MaxLookups
       /\ \E pos \in Positions, v \in Velocities : Receive("B1", 1, pos, v)
    \/ /\ Cardinality(lookups) < MaxLookups
       /\ \E p \in passes : ResumeMatch(p, TRUE)
    \/ /\ Cardinality(lookups) < MaxLookups
       /\ \E p \in passes : ResumeStops(p, TRUE)
    \/ \E l \in lookups : ResolveLookup(l, TRUE)
    \/ \E c \in Clients, k \in RouteKeys : Connect(c, k)
    \/ \E c \in Clients : StartClose(c)
    \/ \E c \in Clients : ErrorEvent(c)
    \/ \E c \in Clients : CloseEvent(c)

SpecFanout == Init /\ [][NextFanout]_vars

\* The registry of passenger connections under every order of upgrades,
\* closing handshakes, error events and close events.
NextRegistry ==
    \/ \E c \in Clients, k \in RouteKeys : Connect(c, k)
    \/ \E c \in Clients : StartClose(c)
    \/ \E c \in Clients : ErrorEvent(c)
    \/ \E c \in Clients : CloseEvent(c)

SpecRegistry == Init /\ [][NextRegistry]_vars

\* The upgrades of passenger sockets, accepted and refused, and the events of
\* the accepted ones.
NextUpgrade ==
    \/ \E c \in Clients, url \in PassengerUrls :
           /\ onUpgrade(url).connectionType = "passenger"
           /\ Connect(c, onUpgrade(url).routeId)
    \/ \E c \in Clients, url \in UnknownUrls \cup PassengerUrls : RefuseUpgrade(c, url)
    \/ \E c \in Clients : StartClose(c)
    \/ \E c \in Clients : ErrorEvent(c)
    \/ \E c \in Clients : CloseEvent(c)

SpecUpgrade == Init /\ [][NextUpgrade]_vars

\* ------------------------------------------------------------ the properties
RECURSIVE Count(_, _)
Count(out, type) ==
    IF out = <<>> THEN 0
    ELSE (IF Head(out).type = type THEN 1 ELSE 0) + Count(Tail(out), type)

\* The passes whose subline inference is over: the one that completed last
\* and those awaiting the stops of their subline.
PastInference == {lastDone.pass} \cup {p \in passes : p.pc = "stops"}

\* The socket subscribed before the first driver frame, is still open, and
\* its main route owns the subline of the message handed over in the call.
Subscribed(c, l) ==
    /\ sockets[c].early
    /\ sockets[c].readyState = "OPEN"
    /\ l.given.rt_id \in SublineIds
    /\ sockets[c].routeId = ToString(SubLineTable[l.given.rt_id])

\* The positions in the frames written to the socket that hold the message.
Writes(c, m) == {k \in 1..Len(sockets[c].recv) : sockets[c].recv[k].data = m}

\* C1: of two messages the pipeline produced for one bus, a socket that has
\* been subscribed to the bus's route since before they were produced and is
\* still open once both lookups have completed has been written both, in the
\* order they were produced (on a first inference position then esta-info, on a
\* reversal close, position, esta-info).
C1_DeliveredInProductionOrder ==
    \A l1 \in resolved, l2 \in resolved :
        (l1.seq < l2.seq /\ l1.given.bus = l2.given.bus) =>
            \A c \in Clients :
                (Subscribed(c, l1) /\ Subscribed(c, l2)) =>
                    \E i \in Writes(c, l1.given), j \in Writes(c, l2.given) : i < j

\* C2: a message the pipeline produced for a subline of route R, once its
\* lookup has completed, has been written exactly once to every socket that
\* has been subscribed to R since before it was produced and is still open.
C2_SentExactlyOnce ==
    \A l \in resolved :
        \A c \in Clients : Subscribed(c, l) => Cardinality(Writes(c, l.given)) = 1

\* C3: every frame the broadcaster writes to a socket comes from a call whose
\* message is for a subline of the socket's main route, and every pipeline
\* message written to it has such an rt_id.
C3_RouteIsolation ==
    \A c \in Clients :
        \A k \in 1..Len(sockets[c].recv) :
            LET f == sockets[c].recv[k]
            IN /\ f.given # NoMsg =>
                     /\ f.given.rt_id \in SublineIds
                     /\ ToString(SubLineTable[f.given.rt_id]) = sockets[c].routeId
               /\ f.data.type \in {"close", "position", "esta-info"} =>
                     /\ f.data.rt_id \in SublineIds
                     /\ ToString(SubLineTable[f.data.rt_id]) = sockets[c].routeId

\* The lookup of a call for a message of subline 11 (route 1) has completed
\* while a socket subscribed to route 2 since before the call is open; the
\* socket holds its welcome frame only.
C3_Witness ==
    \E l \in resolved :
        \E c \in Clients :
            /\ l.given.rt_id = 11
            /\ sockets[c].early
            /\ sockets[c].readyState = "OPEN"
            /\ sockets[c].routeId = "2"
            /\ Len(sockets[c].recv) = 1

\* C4: a pass emits exactly one position message when its current subline is
\* known after inference, carrying that subline as rt_id, and none when the
\* current subline is unknown; a pass still awaiting the matcher has emitted
\* none.
C4_OnePositionIffSublineKnown ==
    /\ \A p \in PastInference :
          /\ Count(p.out, "position") = IF p.currentSublineRtId # None THEN 1 ELSE 0
          /\ \A k \in 1..Len(p.out) :
                p.out[k].type = "position" => /\ p.out[k].rt_id = p.currentSublineRtId
                                              /\ p.out[k].pos = p.pos
    /\ \A p \in passes : p.pc = "match" => p.out = <<>>

\* A fifth frame of a bus on subline 11 has produced its position message.
C4_Witness ==
    /\ lastDone.pass.frameNo = 5
    /\ lastDone.pass.currentSublineRtId = 11
    /\ Count(lastDone.pass.out, "position") = 1

\* C5: a pass emits a close message if and only if its previous and its
\* current subline are both known and differ, and the close carries the
\* previous subline as rt_id.
C5_CloseOnlyBetweenKnownSublines ==
    \A p \in PastInference :
        /\ Count(p.out, "close") =
               IF /\ p.previousSublineRtId # None
                  /\ p.currentSublineRtId # None
                  /\ p.previousSublineRtId # p.currentSublineRtId
               THEN 1 ELSE 0
        /\ \A k \in 1..Len(p.out) :
              p.out[k].type = "close" => p.out[k].rt_id = p.previousSublineRtId

\* C6 as claimed: a completed pass that emitted a position message for a
\* subline emitted exactly one esta-info message for it, after the position.
C6_EstaInfoAfterEveryPosition ==
    LET out == lastDone.pass.out
    IN \A k \in 1..Len(out) :
          out[k].type = "position" =>
             /\ Count(out, "esta-info") = 1
             /\ \E j \in (k + 1)..Len(out) :
                   out[j].type = "esta-info" /\ out[j].rt_id = out[k].rt_id

\* C6: a completed pass that emitted a position message for subline s leaves
\* the stop cache holding the entry of s, and emitted one esta-info message
\* for s after the position when that entry has stops and none when it is
\* empty (the stops could not be fetched or s has none); a pass without a
\* position message emits no esta-info.
C6_EstaInfoIffStopsCached ==
    LET out == lastDone.pass.out
        c == lastDone.after.stopsForCurrentSublineRtId
    IN /\ Count(out, "position") = 0 => Count(out, "esta-info") = 0
       /\ \A k \in 1..Len(out) :
             out[k].type = "position" =>
                /\ c.rtId = out[k].rt_id
                /\ Count(out, "esta-info") = IF Len(c.stops) > 0 THEN 1 ELSE 0
                /\ \A j \in 1..Len(out) :
                      out[j].type = "esta-info" => j > k /\ out[j].rt_id = out[k].rt_id

\* A pass emitted its position and, the fetch of the stops having failed,
\* completed without an esta-info.
C6_Witness ==
    /\ lastDone.pass.pc = "done"
    /\ Count(lastDone.pass.out, "position") = 1
    /\ Count(lastDone.pass.out, "esta-info") = 0
    /\ lastDone.after.stopsForCurrentSublineRtId.rtId = lastDone.pass.currentSublineRtId
    /\ lastDone.after.stopsForCurrentSublineRtId.stops = <<>>

\* C7: the pass of a frame whose routeId differs from the stored main route
\* id completes without calling the matcher and commits a state whose current
\* and previous subline are unknown, whose stop cache is empty and whose main
\* route id is the frame's routeId.
C7_RouteChangeReset ==
    lastDone.pass.routeChanged =>
        /\ ~lastDone.pass.matcherInvoked
        /\ lastDone.after.currentSublineRtId = None
        /\ lastDone.after.lastProcessedSublineRtId = None
        /\ lastDone.after.stopsForCurrentSublineRtId = NoCache
        /\ lastDone.after.mainRtId = lastDone.pass.mainRouteId
        /\ \A p \in passes : ~p.routeChanged

\* A bus that was on a subline of route 1 has just been reset by a frame
\* naming route 2.
C7_Witness ==
    /\ lastDone.pass.routeChanged
    /\ lastDone.pass.previousSublineRtId = 11
    /\ lastDone.pass.mainRouteId = 2
    /\ activeBusStates[lastDone.pass.bus] = lastDone.after

\* C8 as claimed: a position message comes only from a frame that is at
\* least the third consecutive frame of its bus carrying its routeId.
C8_PositionOnlyAfterThreeFramesOfRoute ==
    \A p \in PastInference :
        Count(p.out, "position") > 0 => p.run >= MIN_SIGNALS_FOR_DIRECTION

\* C8: the pass of a frame whose routeId differs from the stored main route
\* id emits no position and no esta-info message, and the reset keeps the
\* history: the samples recorded under the old route stay in it.
C8_NoPositionOnRouteChange ==
    lastDone.pass.routeChanged =>
        /\ Count(lastDone.pass.out, "position") = 0
        /\ Count(lastDone.pass.out, "esta-info") = 0
        /\ Len(lastDone.after.history) = lastDone.pass.frameNo

\* The fourth frame of a bus changed its route: its pass emitted no position
\* and left four samples in the history.
C8_Witness ==
    /\ lastDone.pass.routeChanged
    /\ lastDone.pass.frameNo = 4
    /\ lastDone.pass.run = 1
    /\ Len(lastDone.after.history) = 4

\* C9: the passes of the first two frames of a bus run to completion without
\* an await and emit no message.
C9_NoPositionBelowQuorum ==
    /\ lastDone.pass.frameNo \in {1, 2} => lastDone.pass.out = <<>>
    /\ \A p \in passes : p.frameNo >= MIN_SIGNALS_FOR_DIRECTION

\* The second frame of a bus moving east on one route has been processed.
C9_Witness ==
    /\ lastDone.pass.frameNo = 2
    /\ lastDone.pass.run = 2
    /\ lastDone.after.history[1].pos # lastDone.after.history[2].pos

\* C10: in every state the history of a bus holds at most HISTORY_SIZE
\* samples, and they are the bus's most recently received samples in arrival
\* order.
C10_HistoryIsRecentSamples ==
    \A b \in Buses :
        /\ Len(activeBusStates[b].history) <= HISTORY_SIZE
        /\ activeBusStates[b].history = received[b].recent

\* The sixth frame of a bus arrived while the pass of an earlier frame was
\* suspended, and both passes are in flight: the first sample has been dropped.
C10_Witness ==
    /\ nframes = 6
    /\ Cardinality(passes) = 2
    /\ Len(activeBusStates["B1"].history) = HISTORY_SIZE
    /\ activeBusStates["B1"].history[1].ts = 2


\* No pass of the bus is suspended.
Quiescent(b) == \A p \in passes : p.bus # b

\* C11: once the passes of a bus have all finished, overlapping or not, the
\* committed state of the bus is the one that processing its frames one
\* after the other in arrival order leaves: no update of the current subline,
\* the previous subline, the cached stops or the last timestamp is lost.
C11_CommitsAsIfInArrivalOrder ==
    \A b \in Buses :
        Quiescent(b) =>
            /\ activeBusStates[b].currentSublineRtId = serial[b].currentSublineRtId
            /\ activeBusStates[b].lastProcessedSublineRtId = serial[b].lastProcessedSublineRtId
            /\ activeBusStates[b].stopsForCurrentSublineRtId = serial[b].stopsForCurrentSublineRtId
            /\ activeBusStates[b].lastProcessedTimestamp = serial[b].lastProcessedTimestamp

\* C12: once the passes of a bus have all finished, its stored main route id
\* is the routeId of the frame received last, whatever the order in which
\* the passes committed.
C12_MainRouteOfLastFrame ==
    \A b \in Buses :
        (Quiescent(b) /\ received[b].count > 0) =>
            activeBusStates[b].mainRtId = received[b].route


\* The sockets registered under a route key.
Members(k) ==
    IF k \in DOMAIN passengerConnectionsByRoute THEN passengerConnectionsByRoute[k] ELSE {}

\* C13: in every state of the registry no route key maps to an empty set of
\* subscribers: the entry goes as soon as its last connection is removed, by
\* the close event or by the error event.
C13_NoEmptySubscriberSet ==
    \A k \in DOMAIN passengerConnectionsByRoute : passengerConnectionsByRoute[k] # {}

\* C14 as claimed: every connection in a subscriber set is open.
C14_MembersAreOpen ==
    \A k \in DOMAIN passengerConnectionsByRoute :
        \A c \in passengerConnectionsByRoute[k] : sockets[c].readyState = "OPEN"

\* C14: every connection in a subscriber set subscribed to that route and has
\* not had its close event (it is open, or closing and awaiting the event);
\* a closed connection is in no set, and every open connection is in the set
\* of its route.
C14_MembersNotClosed ==
    /\ \A k \in DOMAIN passengerConnectionsByRoute :
           \A c \in passengerConnectionsByRoute[k] :
               /\ sockets[c].readyState \in {"OPEN", "CLOSING"}
               /\ sockets[c].routeId = k
    /\ \A c \in Clients :
           sockets[c].readyState = "OPEN" => c \in Members(sockets[c].routeId)

\* A connection has had its close event while another subscriber of the same
\* route, in its closing handshake, is still registered.
C14_Witness ==
    \E c, d \in Clients :
        /\ sockets[c].readyState = "CLOSED"
        /\ sockets[d].readyState = "CLOSING"
        /\ sockets[d].routeId = sockets[c].routeId
        /\ d \in Members(sockets[d].routeId)


\* The socket had an error event and awaits its close event.
Failed(c) ==
    sockets[c].readyState = "CLOSING" /\ c \notin Members(sockets[c].routeId)

\* C15: when the connection of one subscriber of a route has failed, it is
\* out of the registry and a message broadcast for the route is still
\* written to every other open subscriber of the route.
C15_OthersStillReceive ==
    \A l \in resolved :
        \A c, d \in Clients :
            (Failed(c) /\ sockets[d].routeId = sockets[c].routeId /\ Subscribed(d, l)) =>
                /\ \A k \in DOMAIN passengerConnectionsByRoute :
                       c \notin passengerConnectionsByRoute[k]
                /\ Writes(d, l.given) # {}


\* The route lookup of the call cannot name a main route: its parameter is
\* not the id of a subline.
Unresolvable(l) == l.rtId.t # "number" \/ l.rtId.num \notin SublineIds

\* C17: when the route lookup of a broadcast names no main route (no such
\* subline, or a storage error), the step that completes it writes to no
\* socket and leaves the registry as it was; it touches neither the passes in
\* flight nor the bus states, and the other calls stay pending.
C17_UnresolvedRouteWritesNothing ==
    [][\A l \in lookups \ lookups' :
           (Unresolvable(l) \/ dbFails' # dbFails) =>
               /\ sockets' = sockets
               /\ passengerConnectionsByRoute' = passengerConnectionsByRoute
               /\ passes' = passes
               /\ activeBusStates' = activeBusStates
               /\ lookups' = lookups \ {l}
               /\ ncalls' = ncalls]_vars

\* Two calls have completed their lookups, one of them on a storage error,
\* while a socket subscribed to the route of the first message was open: the
\* socket holds its welcome frame only and the later call was still served.
C17_Witness ==
    \E l1 \in resolved, l2 \in resolved :
        \E c \in Clients :
            /\ l1.seq < l2.seq
            /\ Subscribed(c, l1)
            /\ Len(sockets[c].recv) = 1
            /\ dbFails > 0


\* C18: a driver frame that is not valid JSON, or is valid JSON without a
\* busId, is answered with exactly one error frame on the driver socket and
\* discarded: the pipeline is not invoked, no bus state is created or
\* changed and nothing is handed to the broadcaster.
C18_InvalidFrameAnsweredAndDiscarded ==
    [][driverSocket'.rejected # driverSocket.rejected =>
           /\ Len(driverSocket'.sent) = Len(driverSocket.sent) + 1
           /\ SubSeq(driverSocket'.sent, 1, Len(driverSocket.sent)) = driverSocket.sent
           /\ driverSocket'.sent[Len(driverSocket'.sent)].type = "error"
           /\ UNCHANGED <<activeBusStates, passes, nframes, received, lookups, ncalls,
                          sockets, passengerConnectionsByRoute>>]_vars

\* Two frames were not accepted, after a location frame had created the state
\* of a bus: the driver socket holds its connected frame and two error frames.
C18_Witness ==
    /\ driverSocket.rejected = 2
    /\ Len(driverSocket.sent) = 3
    /\ \E b \in Buses : activeBusStates[b].inMap


\* C19: a driver frame whose lat or lng is missing or not a finite number is
\* rejected before the pipeline starts: the step that receives it extends no
\* history and changes no field of any bus state.
C19_MalformedCoordinateRejected ==
    [][\A b \in Buses :
           (/\ received'[b] # received[b]
            /\ ~IsCoordinate(received'[b].recent[Len(received'[b].recent)].pos)) =>
               activeBusStates' = activeBusStates]_vars


\* The step processes a frame of the bus: it receives one, resumes one of its
\* passes, or is the call that threw for it.
FrameStep(a) ==
    \/ received'[a] # received[a]
    \/ \E p \in passes : p.bus = a /\ p \notin passes'
    \/ /\ process'.unhandled # process.unhandled
       /\ process'.unhandled[Len(process'.unhandled)] = a

\* C20: a step that processes a frame of one bus, whether its pass goes on
\* normally or fails (malformed input, storage error, exception inside the
\* pass), leaves the stored state of every other bus as it was and leaves
\* the server running, so that later frames of the other buses are processed.
C20_OtherBusesUnaffected ==
    [][\A a \in Buses :
           FrameStep(a) =>
               /\ \A b \in Buses \ {a} : activeBusStates'[b] = activeBusStates[b]
               /\ ~process'.exited]_vars


\* C21: a pass whose matcher query failed with a storage error is not
\* aborted: it emits no close message and keeps the current subline the bus
\* had stored when the frame arrived, and once it has completed, the
\* committed state holds that subline and the frame's sample in its history.
C21_StorageErrorInInferenceKeepsSubline ==
    /\ \A p \in PastInference :
           p.matchFailed =>
               /\ p.pc \in {"stops", "done"}
               /\ p.currentSublineRtId = p.arrival
               /\ Count(p.out, "close") = 0
    /\ lastDone.pass.matchFailed =>
           /\ lastDone.after.currentSublineRtId = lastDone.pass.arrival
           /\ lastDone.after.inMap
           /\ \E k \in 1..Len(lastDone.after.history) :
                  lastDone.after.history[k] =
                      [pos |-> lastDone.pass.pos, ts |-> lastDone.pass.id]

\* A bus whose subline is known had the matcher query of a later frame fail;
\* the pass of that frame has completed.
C21_Witness ==
    /\ lastDone.pass.matchFailed
    /\ lastDone.pass.arrival # None
    /\ Count(lastDone.pass.out, "position") = 1


\* C22: a failed fetch of the stops of the current subline is transient: a
\* later pass of the bus on that subline in which no storage query fails has
\* the stops again and emits an esta-info message.  Every subline the matcher
\* can choose has stops and the buses stay within reach of them, so every
\* completed pass with a known subline and no storage failure emits one.
C22_StopsFetchRetried ==
    (/\ lastDone.pass.pc = "done"
     /\ lastDone.pass.currentSublineRtId # None
     /\ ~lastDone.pass.matchFailed
     /\ ~lastDone.pass.stopsFailed) =>
        Count(lastDone.pass.out, "esta-info") = 1


\* The queries that have run their loop over the active buses.
Scanned == {q \in stationQueries : q.pc = "returned" /\ ~q.failed /\ Len(q.sublineIds) > 0}

Hinted(q, b) == \E k \in 1..Len(q.result) : q.result[k].bus_id = b

\* The bus is on a subline that serves the station and its closest stop, by
\* its last position, comes before the station in the subline's sequence.
Approaching(busState, station) ==
    LET cur == busState.currentSublineRtId
        stops == SubLineStops[cur]
    IN /\ cur # None
       /\ targetStopIndex(stops, station) >
              closestStopIndexInSequence(stops, busState.history[Len(busState.history)].pos)

\* C23: the station query returns a hint for an active bus exactly when the
\* bus's current subline serves the station and the station comes strictly
\* after the bus's closest stop in that subline's sequence (when the limit
\* leaves room for every active bus).
C23_HintIffApproaching ==
    \A q \in Scanned :
        Cardinality(q.iterated) <= q.limit =>
            \A b \in q.iterated : Hinted(q, b) <=> Approaching(q.seen[b], q.targetStationId)

\* C25: every bus object the station query iterates over is as one completed
\* pass committed it: for the bus of the pass that completed last, the object
\* is the one that pass committed.
C25_NoTornBusState ==
    \A q \in Scanned :
        \A b \in q.iterated :
            q.lastCommit.pass.bus = b => q.seen[b] = q.lastCommit.after


\* The sockets whose upgrade was refused: they left CONNECTING without a route.
Refused == {c \in Clients : sockets[c].readyState # "CONNECTING" /\ sockets[c].routeId = ""}

\* C26: an upgrade whose path names neither endpoint is answered with a
\* WebSocket close frame of code 1008, and its socket is in no subscriber set.
C26_UnknownPathClosedWith1008 ==
    \A c \in Refused :
        /\ \E k \in 1..Len(sockets[c].recv) : sockets[c].recv[k].data = CloseFrame(1008)
        /\ \A key \in DOMAIN passengerConnectionsByRoute : c \notin passengerConnectionsByRoute[key]


\* The passenger sockets the server has accepted.
Accepted == {c \in Clients : sockets[c].routeId # ""}

\* C27: a passenger socket accepted for a route has been written exactly one
\* frame of type "connection", that frame names the route, and it is the
\* first frame written to the socket.
C27_WelcomeFirstAndOnce ==
    \A c \in Accepted :
        /\ Len(sockets[c].recv) >= 1
        /\ sockets[c].recv[1].data.type = "connection"
        /\ sockets[c].recv[1].data.route = sockets[c].routeId
        /\ \A k \in 2..Len(sockets[c].recv) : sockets[c].recv[k].data.type # "connection"

C27_Witness ==
    \E c \in Accepted, l \in resolved :
        /\ Subscribed(c, l)
        /\ sockets[c].recv[1].data.route = sockets[c].routeId


\* YYYYMMDDHHMMSS of an ISO timestamp: the digits of its first 19 characters.
Compact(iso) == SelectSeq(SubSeq(iso, 1, 19), LAMBDA ch : ch \in Digits)

\* C28: the upd and date of every position, close and esta-info message
\* handed to the broadcaster are the 14 digits YYYYMMDDHHMMSS of the
\* message's timestamp.
C28_CompactTimestamps ==
    \A l \in lookups :
        l.given.type \in {"position", "close", "esta-info"} =>
            /\ Len(l.given.date) = 14
            /\ l.given.date = Compact(toISOString(l.given.upd))


\* C29: every message the pipeline hands to the broadcaster arrives with its
\* subline id: the value whose main route the broadcaster looks up is the
\* message's rt_id and the payload it serializes is the message.
C29_BroadcasterGivenSublineAndMessage ==
    \A l \in lookups \cup resolved :
        /\ l.rtId = JsNumber(l.given.rt_id)
        /\ l.message = JsObject(l.given)


\* C30: a pass invokes the matcher only when the history, the frame's sample
\* pushed, holds at least three samples and the frame's routeId is the stored
\* main route id; a pass is suspended in the matcher only if it invoked it.
C30_MatcherNeedsQuorumOnStoredRoute ==
    /\ \A p \in passes \cup {lastDone.pass} :
           p.matcherInvoked =>
               /\ p.historyLength >= MIN_SIGNALS_FOR_DIRECTION
               /\ ~p.routeChanged
    /\ \A p \in passes : p.pc = "match" => p.matcherInvoked

\* A frame that changed the route of a bus with three or more samples has
\* been processed without the matcher.
C30_Witness ==
    /\ lastDone.pass.routeChanged
    /\ lastDone.pass.historyLength >= MIN_SIGNALS_FOR_DIRECTION
    /\ ~lastDone.pass.matcherInvoked
    /\ lastDone.pass.pc = "done"


\* The passes whose call of the matcher has returned.
Matched == {p \in passes \cup {lastDone.pass} : p.matcherInvoked /\ p.pc \in {"stops", "done"}}

\* C31: once the matcher has returned in a pass, the pass's current subline
\* is the matcher's result when there is one, adopted at once, and the
\* subline the bus had when the frame arrived when there is none; a history
\* whose movements are all below the noise floor yields none; the pass
\* commits that subline.
C31_AdoptOrRetain ==
    /\ \A p \in Matched :
           /\ p.currentSublineRtId =
                  IF p.matchResult # None THEN p.matchResult ELSE p.arrival
           /\ p.still => p.matchResult = None
    /\ lastDone.pass \in Matched =>
           lastDone.after.currentSublineRtId = lastDone.pass.currentSublineRtId

\* A pass moved the bus from one subline to another on the first frame
\* that matched the other.
C31_Witness ==
    /\ lastDone.pass \in Matched /\ lastDone.pass.pc = "done"
    /\ lastDone.pass.arrival # None
    /\ lastDone.pass.matchResult # None
    /\ lastDone.pass.matchResult # lastDone.pass.arrival
    /\ lastDone.after.currentSublineRtId = lastDone.pass.matchResult


\* The adjacent-stop segments of the sublines of a route: the subline and the
\* displacement from a stop to the next.  A subline with one stop has none.
Segments(routeId) ==
    UNION {{[sub |-> s,
             dir |-> <<SubLineStops[s][i + 1].pos[1] - SubLineStops[s][i].pos[1],
                       SubLineStops[s][i + 1].pos[2] - SubLineStops[s][i].pos[2]>>] :
                i \in 1..(Len(SubLineStops[s]) - 1)} :
           s \in {t \in SublineIds : SubLineTable[t] = routeId}}

\* The angle between the two directions is at most 45 degrees.
AtMost45(u, v) ==
    /\ u[1] * v[1] + u[2] * v[2] >= 0
    /\ 2 * (u[1] * v[1] + u[2] * v[2]) * (u[1] * v[1] + u[2] * v[2])
           >= (u[1] * u[1] + u[2] * u[2]) * (v[1] * v[1] + v[2] * v[2])

\* Of two directions within 45 degrees of u, v is strictly closer to u than w.
Closer(u, v, w) ==
    (u[1] * v[1] + u[2] * v[2]) * (u[1] * v[1] + u[2] * v[2]) * (w[1] * w[1] + w[2] * w[2])
        > (u[1] * w[1] + u[2] * w[2]) * (u[1] * w[1] + u[2] * w[2]) * (v[1] * v[1] + v[2] * v[2])

Qualifying(routeId, avg) == {x \in Segments(routeId) : AtMost45(avg, x.dir)}

\* The sublines that own a qualifying segment no other qualifying segment
\* is closer than.
BestSublines(routeId, avg) ==
    {x.sub : x \in {y \in Qualifying(routeId, avg) :
                       \A z \in Qualifying(routeId, avg) : ~Closer(avg, z.dir, y.dir)}}

\* The passes in which the matcher computed an average bearing and compared
\* it with the catalog.
Compared == {p \in Matched : p.bearing # NoBearing}

\* C32: when a segment of the route qualifies, the matcher returns the
\* subline that owns the segment closest in bearing to the bus's average
\* bearing, and of several such sublines the one with the lowest id.
C32_BestSegmentLowestId ==
    \A p \in Compared :
        Qualifying(p.mainRouteId, p.bearing) # {} =>
            /\ p.matchResult \in BestSublines(p.mainRouteId, p.bearing)
            /\ \A s \in BestSublines(p.mainRouteId, p.bearing) : p.matchResult <= s

\* Two sublines own a best segment and another segment qualifies with a
\* lower score.
C32_Witness ==
    \E p \in Compared :
        /\ Cardinality(BestSublines(p.mainRouteId, p.bearing)) = 2
        /\ Cardinality(Qualifying(p.mainRouteId, p.bearing)) > 2
        /\ p.matchResult # None

\* C33: the matcher returns none exactly when no segment of a subline of the
\* route with two stops or more is within 45 degrees of the bus's average
\* bearing; a segment at 45 degrees qualifies.
C33_NoneIffNoSegmentWithin45 ==
    \A p \in Compared :
        (p.matchResult = None) <=> (Qualifying(p.mainRouteId, p.bearing) = {})

\* The only qualifying segment is at exactly 45 degrees and the route has a
\* subline with a single stop.
C33_Witness ==
    \E p \in Compared :
        /\ p.matchResult # None
        /\ \A x \in Qualifying(p.mainRouteId, p.bearing) :
               2 * Dot(p.bearing, x.dir) * Dot(p.bearing, x.dir)
                   = NormSq(p.bearing) * NormSq(x.dir)
        /\ \E s \in SublineIds :
               SubLineTable[s] = p.mainRouteId /\ Len(SubLineStops[s]) = 1


\* The esta-info messages the passes have emitted so far.
EstaInfos ==
    {m \in UNION {{p.out[k] : k \in 1..Len(p.out)} : p \in passes \cup {lastDone.pass}} :
        m.type = "esta-info"}

\* The lowest index among the stops at minimal distance from the position.
Nearest(stops, pos) ==
    CHOOSE i \in 1..Len(stops) :
        /\ \A j \in 1..Len(stops) : DistSq(pos, stops[i].pos) <= DistSq(pos, stops[j].pos)
        /\ \A j \in 1..(i - 1) : DistSq(pos, stops[j].pos) > DistSq(pos, stops[i].pos)

\* C34: the stops list of an esta-info message is exactly the stops at
\* indices closest_idx + 1 up to at most closest_idx + 5 of the current
\* subline's stop sequence, in sequence order; closest_idx is the lowest
\* index among the stops at minimal distance from the bus's position.
C34_UpcomingStopsWindow ==
    \A m \in EstaInfos :
        LET stops == SubLineStops[m.rt_id]
            c == Nearest(stops, m.pos)
        IN /\ Len(m.stops) <= MAX_UPCOMING_STOPS
           /\ Len(m.stops) <= Len(stops) - c
           /\ Len(m.stops) = MAX_UPCOMING_STOPS \/ Len(m.stops) = Len(stops) - c
           /\ \A k \in 1..Len(m.stops) : m.stops[k] = stops[c + k].id

\* A bus halfway between the first two of eight stops: the tie goes to the
\* first, and the list is cut after five of the seven stops that follow.
C34_Witness ==
    \E m \in EstaInfos :
        /\ m.rt_id = 8 /\ m.pos = <<25, 0>>
        /\ m.stops = <<22, 23, 24, 25, 26>>

\* A bus at the last stop of its subline: the message is sent with no stops.
C34_WitnessLastStop ==
    \E m \in EstaInfos : m.rt_id = 8 /\ m.pos = <<350, 0>> /\ m.stops = <<>>


\* The time fields of an entry whose arrival is unknown.
ArrivalUnknown(e) ==
    e.esta_time = NoEstimate /\ e.arr_t = "000000" /\ e.dep_t = "000030"

\* C35: a completed pass of a frame whose velocity is 0 or negative, with
\* the current subline known and its cached stop list non-empty, has emitted
\* one esta-info message, and every stop entry of it carries the
\* arrival-unknown markers.
C35_StandstillMarksArrivalsUnknown ==
    LET p == lastDone.pass
        c == lastDone.after.stopsForCurrentSublineRtId
    IN (/\ p.pc = "done" /\ p.vel <= 0 /\ IsCoordinate(p.pos)
        /\ p.currentSublineRtId # None
        /\ c.rtId = p.currentSublineRtId /\ Len(c.stops) > 0)
       => /\ Count(p.out, "esta-info") = 1
          /\ \A k \in 1..Len(p.out) :
                p.out[k].type = "esta-info" =>
                   /\ Len(p.out[k].times) = Len(p.out[k].stops)
                   /\ \A i \in 1..Len(p.out[k].times) :
                         /\ p.out[k].times[i].stop_id = p.out[k].stops[i]
                         /\ ArrivalUnknown(p.out[k].times[i])

\* A bus that reports a negative velocity between the first two stops: its
\* esta-info lists five stops, none with a computed time.
C35_Witness ==
    /\ lastDone.pass.pc = "done" /\ lastDone.pass.vel < 0
    /\ \E k \in 1..Len(lastDone.pass.out) :
          /\ lastDone.pass.out[k].type = "esta-info"
          /\ Len(lastDone.pass.out[k].times) = MAX_UPCOMING_STOPS
          /\ \A i \in 1..MAX_UPCOMING_STOPS : ArrivalUnknown(lastDone.pass.out[k].times[i])


\* C36: the state a completed pass leaves has, when its stop cache is
\* populated, the cache's subline id equal to the current subline id; so
\* has every bus's state while none of its passes is in flight.
C36_CacheCoherent ==
    /\ lastDone.pass.pc = "done" =>
          \/ lastDone.after.stopsForCurrentSublineRtId = NoCache
          \/ lastDone.after.stopsForCurrentSublineRtId.rtId = lastDone.after.currentSublineRtId
    /\ \A b \in Buses :
          (\A p \in passes : p.bus # b) =>
             \/ activeBusStates[b].stopsForCurrentSublineRtId = NoCache
             \/ activeBusStates[b].stopsForCurrentSublineRtId.rtId
                   = activeBusStates[b].currentSublineRtId


\* C37: a close message of a completed pass carries the position and the
\* timestamp of the frame of the bus that immediately preceded the pass's
\* own, whatever the preceding coordinates are.
C37_CloseCarriesPrecedingFrame ==
    LET p == lastDone.pass
        h == lastDone.after.history
    IN p.pc = "done" =>
          \A k \in 1..Len(p.out) :
             p.out[k].type = "close" =>
                \E i \in 1..(Len(h) - 1) :
                   /\ h[i + 1].ts = p.id
                   /\ p.out[k].pos = h[i].pos
                   /\ p.out[k].upd = h[i].ts


\* The sublines a pass has emitted a close message for.
Closed(p) == {p.out[k].rt_id : k \in {j \in 1..Len(p.out) : p.out[j].type = "close"}}

\* C38: one subline transition of a bus produces one close message for the
\* previous subline, also when two frames of the bus are in flight at once:
\* no two passes of a bus that are suspended at the same time, neither having
\* committed, have each emitted a close message for the same subline.
C38_PreviousSublineClosedOnce ==
    \A p, q \in passes :
        (p # q /\ p.bus = q.bus) => Closed(p) \cap Closed(q) = {}

============================================================================
